---- MODULE Spec2Model ----
(***************************************************************************)
(* CAPTCHArun: the round orchestration core (core/game.py) with its        *)
(* Session (core/session.py), Timer (core/timer.py), ChallengeFactory      *)
(* (core/challenge_factory.py), the challenge registry and the challenge   *)
(* variants, as one state machine.                                         *)
(*                                                                         *)
(* Time is counted in integer milliseconds: the source's float seconds     *)
(* 12.0, 4.0, 0.4 and 0.45 are 12000, 4000, 400 and 450.                   *)
(* Audio: Game._play is a no-op while Game._audio is None, and main.py     *)
(* never calls set_audio, so the cues change no state and are left out.    *)
(***************************************************************************)
EXTENDS Integers, Sequences, FiniteSets, TLC

VARIABLES
    state,      \* Game.state: "MENU", "PLAYING", "FLASH", "GAMEOVER"
    session,    \* Game.session: the Session's fields
    timer,      \* Game.timer: the Timer's fields
    last_id,    \* Game.factory._last_id ("None" for None)
    challenge,  \* Game.challenge: the active challenge's fields (id "None" for None)
    btn_rect,   \* Game._btn_rect: rectangle cached by the last render
    hover,      \* Game._hover
    calls,      \* number of calls made to the Game so far, modulo 2
    registry    \* the ids that are keys of CHALLENGE_REGISTRY

\* the Game's own state
gvars == <<state, session, timer, last_id, challenge, btn_rect, hover>>

vars == <<gvars, calls, registry>>

----------------------------------------------------------------------------
(* settings.py *)

SCREEN_W == 360
SCREEN_H == 640
GRID_COLS == 3
GRID_ROWS == 3
GRID_TILE_W == 96
GRID_TILE_H == 96
GRID_PADDING == 8
TIMER_START_S == 12000
TIMER_MIN_S == 4000
TIMER_DECAY == 400
MAX_STRIKES == 3
HEADER_H == 80
TIMER_BAR_H == 8
VERIFY_BTN_H == 48
SUSPICION_BAR_H == 16
BOTTOM_PANEL_H == VERIFY_BTN_H + SUSPICION_BAR_H + 24

DIFFICULTY_THRESHOLDS == [easy |-> 0, medium |-> 5, hard |-> 8]

(* core/session.py *)
FLASH_DURATION == 450
BASE_SCORE == 100

(* challenges/checkbox.py *)
BOX_SIZE == 48
FLEE_RADIUS == 90
MAX_DODGES == 4

----------------------------------------------------------------------------
(* Bounds of the model *)

\* no step takes round_num above MaxRound
MaxRound == 3

\* the same for the long games of LongSpec
MaxLongRound == 6

\* frame deltas handed to Game.update, in ms: none, less than a flash,
\* a third of the first round's limit
DtValues == {0, 400, 4000}

Max(a, b) == IF a >= b THEN a ELSE b
Min(a, b) == IF a <= b THEN a ELSE b

----------------------------------------------------------------------------
(* core/session.py: Session *)

\* Session.__init__
SessionInit ==
    [round_num |-> 1, score |-> 0, streak |-> 0, strikes |-> 0,
     flash_color |-> "None", flash_timer |-> 0]

\* a reset that leaves the score of the previous game
SessionResetKeepsScore(s) ==
    [s EXCEPT !.round_num = 1, !.streak = 0, !.strikes = 0,
              !.flash_color = "None", !.flash_timer = 0]

\* Session.reset
SessionReset(s) ==
    [s EXCEPT !.round_num = 1, !.score = 0, !.streak = 0, !.strikes = 0,
              !.flash_color = "None", !.flash_timer = 0]

\* Session._start_flash
StartFlash(s, color) ==
    [s EXCEPT !.flash_color = color, !.flash_timer = FLASH_DURATION]

\* a register_pass that increments the streak before it computes the multiplier
RegisterPassStreakFirst(s) ==
    LET multiplier == 1 + (s.streak + 1)
    IN  StartFlash([s EXCEPT !.score = s.score + BASE_SCORE * multiplier,
                             !.streak = s.streak + 1,
                             !.round_num = s.round_num + 1], "pass")

\* a register_pass that wipes the strikes
RegisterPassForgives(s) ==
    LET multiplier == 1 + s.streak
    IN  StartFlash([s EXCEPT !.score = s.score + BASE_SCORE * multiplier,
                             !.streak = s.streak + 1,
                             !.round_num = s.round_num + 1,
                             !.strikes = 0], "pass")

\* a register_pass that starts the streak over
RegisterPassStreakReset(s) ==
    LET multiplier == 1 + s.streak
    IN  StartFlash([s EXCEPT !.score = s.score + BASE_SCORE * multiplier,
                             !.streak = 0,
                             !.round_num = s.round_num + 1], "pass")

\* Session.register_pass
RegisterPass(s) ==
    LET multiplier == 1 + s.streak
    IN  StartFlash([s EXCEPT !.score = s.score + BASE_SCORE * multiplier,
                             !.streak = s.streak + 1,
                             !.round_num = s.round_num + 1], "pass")

\* a register_fail that moves on to the next round
RegisterFailAdvances(s) ==
    StartFlash([s EXCEPT !.strikes = s.strikes + 1, !.streak = 0,
                         !.round_num = s.round_num + 1], "fail")

\* a register_fail that takes BASE_SCORE off the score
RegisterFailPenalised(s) ==
    StartFlash([s EXCEPT !.strikes = s.strikes + 1, !.streak = 0,
                         !.score = s.score - BASE_SCORE], "fail")

\* Session.register_fail
RegisterFail(s) ==
    StartFlash([s EXCEPT !.strikes = s.strikes + 1, !.streak = 0], "fail")

\* an is_game_over that is one strike late
IsGameOverLate(s) == s.strikes > MAX_STRIKES

\* Session.is_game_over
IsGameOver(s) == s.strikes >= MAX_STRIKES

\* an update_flash that stops 1 ms short of the end of the flash
UpdateFlashNeverEnds(s, dt) ==
    IF s.flash_timer > 0
    THEN LET t == Max(1, s.flash_timer - dt)
         IN  [s EXCEPT !.flash_timer = t,
                       !.flash_color = IF t = 0 THEN "None" ELSE s.flash_color]
    ELSE s

\* Session.update_flash
UpdateFlash(s, dt) ==
    IF s.flash_timer > 0
    THEN LET t == Max(0, s.flash_timer - dt)
         IN  [s EXCEPT !.flash_timer = t,
                       !.flash_color = IF t = 0 THEN "None" ELSE s.flash_color]
    ELSE s

\* Session.flash_state: <<color, alpha>>, alpha given as its numerator over
\* FLASH_DURATION (alpha = flash_timer / _FLASH_DURATION)
FlashState(s) ==
    IF s.flash_color = "None" \/ FLASH_DURATION = 0
    THEN <<"None", 0>>
    ELSE <<s.flash_color, s.flash_timer>>

----------------------------------------------------------------------------
(* core/timer.py: Timer *)

\* Timer.__init__
TimerInit == [limit |-> TIMER_START_S, elapsed |-> 0, running |-> FALSE]

\* a start that forgets the floor TIMER_MIN_S
TimerStartNoFloor(t, round_num) ==
    LET decay == (round_num - 1) * TIMER_DECAY
    IN  [limit |-> TIMER_START_S - decay, elapsed |-> 0, running |-> TRUE]

\* Timer.start
TimerStart(t, round_num) ==
    LET decay == (round_num - 1) * TIMER_DECAY
    IN  [limit |-> Max(TIMER_MIN_S, TIMER_START_S - decay),
         elapsed |-> 0, running |-> TRUE]

\* a stop that also rewinds
TimerStopResets(t) == [t EXCEPT !.running = FALSE, !.elapsed = 0]

\* Timer.stop
TimerStop(t) == [t EXCEPT !.running = FALSE]

\* an update that does not clamp at the limit
TimerUpdateNoClamp(t, dt) ==
    IF t.running /\ t.elapsed < t.limit
    THEN [t EXCEPT !.elapsed = t.elapsed + dt]
    ELSE t

\* Timer.update
TimerUpdate(t, dt) ==
    IF t.running /\ t.elapsed < t.limit
    THEN [t EXCEPT !.elapsed = Min(t.elapsed + dt, t.limit)]
    ELSE t

\* Timer.fill, given as its numerator over the limit:
\* fill() = max(0.0, 1.0 - elapsed / limit) = Fill(t) / t.limit, so
\* fill() is 1.0 when Fill(t) = t.limit and 0.0 when Fill(t) = 0
Fill(t) == IF t.limit <= 0 THEN 0 ELSE Max(0, t.limit - t.elapsed)

\* Timer.remaining
Remaining(t) == Max(0, t.limit - t.elapsed)

\* an is_expired that needs the limit to be passed
IsExpiredStrict(t) == t.elapsed > t.limit

\* Timer.is_expired
IsExpired(t) == t.elapsed >= t.limit

----------------------------------------------------------------------------
(* pygame.Rect as the code uses it, and the rectangles the renderer returns *)

NoneRect == [isNone |-> TRUE, x |-> 0, y |-> 0, w |-> 0, h |-> 0]
Rect(x, y, w, h) == [isNone |-> FALSE, x |-> x, y |-> y, w |-> w, h |-> h]

\* `if self._btn_rect`: None is falsy, and so is a Rect of zero width or height
RectTruthy(r) == ~r.isNone /\ r.w # 0 /\ r.h # 0

\* pygame.Rect.collidepoint: left and top edges inside, right and bottom outside
CollidePoint(r, p) ==
    /\ r.x <= p[1] /\ p[1] < r.x + r.w
    /\ r.y <= p[2] /\ p[2] < r.y + r.h

\* renderer/menu.py draw_menu: the giant checkbox is the start button
MenuButtonRect == Rect((SCREEN_W - 100) \div 2, 210, 100, 100)

\* renderer/ui.py draw_verify_button
VerifyButtonRect ==
    LET margin == 24
    IN  Rect(margin, SCREEN_H - VERIFY_BTN_H - 12, SCREEN_W - margin * 2, VERIFY_BTN_H)

\* renderer/ui.py draw_game_over: the TRY AGAIN button
GameOverButtonRect ==
    LET cx == SCREEN_W \div 2
        btn_w == 180
    IN  Rect(cx - btn_w \div 2, 320, btn_w, VERIFY_BTN_H)

----------------------------------------------------------------------------
(* Input events (pygame.event.Event as main.py hands them to Game) *)

\* pointer positions in game coordinates: on the verify button; on the menu
\* button and tile (1,0); on the retry button and tile (1,1); on nothing
Points == {<<180, 600>>, <<180, 250>>, <<180, 340>>, <<10, 100>>}

NoPos == <<-1, -1>>

\* the left clicks
ClickEvents ==
    [type : {"MOUSEBUTTONDOWN"}, button : {1}, pos : Points,
     key : {"None"}, unicode : {""}]

\* a right click on the verify button and one on the menu button and tile
\* (1,0), pointer movement onto that tile and onto nothing, a button release
MouseEvents ==
    ClickEvents
    \cup
    [type : {"MOUSEBUTTONDOWN"}, button : {3}, pos : {<<180, 600>>, <<180, 250>>},
     key : {"None"}, unicode : {""}]
    \cup
    [type : {"MOUSEMOTION"}, button : {0}, pos : {<<180, 250>>, <<10, 100>>},
     key : {"None"}, unicode : {""}]
    \cup
    [type : {"MOUSEBUTTONUP"}, button : {1}, pos : {<<180, 600>>},
     key : {"None"}, unicode : {""}]

KeyEvents ==
    {[type |-> "KEYDOWN", button |-> 0, pos |-> NoPos, key |-> "K_a", unicode |-> "a"]}

Events == MouseEvents \cup KeyEvents

\* pointer positions handed to Game.update: on the verify button, on nothing
UpdatePoints == {<<180, 600>>, <<10, 100>>}

----------------------------------------------------------------------------
(* renderer/grid.py: TileGrid *)

AllPositions == (0 .. GRID_COLS - 1) \X (0 .. GRID_ROWS - 1)

\* TileGrid._compute_origin
GridOriginX ==
    LET grid_w == GRID_COLS * GRID_TILE_W + (GRID_COLS - 1) * GRID_PADDING
    IN  (SCREEN_W - grid_w) \div 2

GridOriginY ==
    LET top_used == HEADER_H + TIMER_BAR_H
        usable_h == SCREEN_H - top_used - BOTTOM_PANEL_H
        grid_h == GRID_ROWS * GRID_TILE_H + (GRID_ROWS - 1) * GRID_PADDING
    IN  top_used + (usable_h - grid_h) \div 2

\* TileGrid.tile_rect
TileRect(col, row) ==
    Rect(GridOriginX + col * (GRID_TILE_W + GRID_PADDING),
         GridOriginY + row * (GRID_TILE_H + GRID_PADDING),
         GRID_TILE_W, GRID_TILE_H)

\* TileGrid.hit_test: the set holding the tile under p, empty for None
HitTest(p) == {t \in AllPositions : CollidePoint(TileRect(t[1], t[2]), p)}

\* a toggle that only ever selects
ToggleAddOnly(selected, t) == selected \cup {t}

\* TileGrid.toggle
Toggle(selected, t) ==
    IF t \in selected THEN selected \ {t} ELSE selected \cup {t}

\* TileGrid.handle_click
GridHandleClick(selected, p) ==
    IF HitTest(p) = {} THEN selected
    ELSE Toggle(selected, CHOOSE t \in HitTest(p) : TRUE)

----------------------------------------------------------------------------
(* challenges/: the challenge variants, one record shape for all of them *)

NoChallenge ==
    [id |-> "None", correct_tiles |-> {}, selected |-> {},
     box_x |-> 0, box_y |-> 0, checked |-> FALSE, dodges |-> 0,
     word |-> <<>>, typed |-> <<>>]

GridIds == {"traffic_light", "bus", "crosswalk"}

\* outcomes of random.sample(all_positions, random.randint(2, 5)) the model draws
TileLayouts == {{<<1, 0>>, <<1, 1>>}}

\* outcomes of crosswalk._generate_path the model draws
PathLayouts == {{<<0, 1>>, <<1, 1>>, <<2, 1>>}}

\* outcomes of checkbox._random_position the model draws
\* (x in 24 .. 288, y in 108 .. 484)
BoxPositions == {<<156, 226>>, <<24, 400>>}

\* outcomes of random.choice(_WORD_BANK) the model draws
Words == {<<"C", "R", "A", "N", "E">>}

LowerCase == <<"a", "b", "c", "e", "n", "r", "s">>
UpperCase == <<"A", "B", "C", "E", "N", "R", "S">>

\* str.upper on one character
Upper(ch) ==
    IF \E i \in 1 .. Len(LowerCase) : LowerCase[i] = ch
    THEN UpperCase[CHOOSE i \in 1 .. Len(LowerCase) : LowerCase[i] = ch]
    ELSE ch

\* str.isalpha on one character
IsAlpha(ch) ==
    \/ \E i \in 1 .. Len(UpperCase) : UpperCase[i] = ch \/ LowerCase[i] = ch
    \/ ch = "ß"

UpperSeq(w) == [i \in 1 .. Len(w) |-> Upper(w[i])]

\* event.unicode.upper(): the characters of the result. event.unicode is the
\* empty string or one character; the upper case of "ß" is the two
\* characters "SS"
UpperStr(u) ==
    IF u = "" THEN <<>>
    ELSE IF u = "ß" THEN <<"S", "S">>
    ELSE <<Upper(u)>>

\* str.isalpha on a string given by its characters
IsAlphaStr(s) == Len(s) > 0 /\ \A i \in 1 .. Len(s) : IsAlpha(s[i])

Range(s) == {s[i] : i \in 1 .. Len(s)}

\* tile layouts with any number of correct tiles
RandomiseAnyCount == SUBSET AllPositions

\* TrafficLightChallenge._randomise / BusChallenge._randomise: every outcome
\* of set(random.sample(all_positions, random.randint(2, 5)))
RandomiseTiles ==
    {layout \in SUBSET AllPositions : Cardinality(layout) \in 2 .. 5}

\* crosswalk._generate_path, the random walk: col, row, the list path, and
\* for each cell appended after the first the cell the walk stepped from
PathStart ==
    {[col |-> 0, row |-> r, path |-> <<<<0, r>>>>, links |-> <<>>]
        : r \in 0 .. GRID_ROWS - 1}

\* `if (col, row) not in path: path.append((col, row))` after a move to (c, r)
PathMove(w, c, r) ==
    IF <<c, r>> \in Range(w.path)
    THEN [w EXCEPT !.col = c, !.row = r]
    ELSE [col |-> c, row |-> r,
          path |-> Append(w.path, <<c, r>>),
          links |-> Append(w.links, <<w.col, w.row>>)]

\* a loop body whose bounds test lets the row GRID_ROWS through
PathStepOffByOne(w) ==
    IF w.col >= GRID_COLS - 1 THEN {}
    ELSE {PathMove(w, w.col + 1, w.row)}
         \cup {LET new_row == w.row + direction
               IN  IF 0 <= new_row /\ new_row <= GRID_ROWS
                   THEN PathMove(w, w.col, new_row)
                   ELSE PathMove(w, w.col + 1, w.row)
                 : direction \in {-1, 1}}

\* one pass of the while loop: the possible walks after it
PathStep(w) ==
    IF w.col >= GRID_COLS - 1 THEN {}
    ELSE {PathMove(w, w.col + 1, w.row)}
         \cup {LET new_row == w.row + direction
               IN  IF 0 <= new_row /\ new_row < GRID_ROWS
                   THEN PathMove(w, w.col, new_row)
                   ELSE PathMove(w, w.col + 1, w.row)
                 : direction \in {-1, 1}}

RECURSIVE PathClosure(_, _)
PathClosure(seen, frontier) ==
    IF frontier = {} THEN seen
    ELSE LET done == seen \cup frontier
         IN  PathClosure(done, (UNION {PathStep(w) : w \in frontier}) \ done)

\* the walks with which _generate_path can leave its loop
GeneratePath == {w \in PathClosure({}, PathStart) : w.col >= GRID_COLS - 1}

\* `return set(path)`: every outcome of _generate_path
GeneratedPaths == {Range(w.path) : w \in GeneratePath}

\* checkbox._random_position: the bounds of its two randint calls
UsableTop == HEADER_H + TIMER_BAR_H + 20
UsableBot == SCREEN_H - BOTTOM_PANEL_H - BOX_SIZE - 20
UsableLeft == 24
UsableRight == SCREEN_W - BOX_SIZE - 24

\* every outcome of _random_position
RandomPosition == (UsableLeft .. UsableRight) \X (UsableTop .. UsableBot)

\* the outcomes drawn when the checkbox is examined on its own: the
\* ends and the middle of the x range, the ends and the quarters of the y range
PositionSamples ==
    {UsableLeft, (UsableLeft + UsableRight) \div 2, UsableRight}
    \X {UsableTop + k * ((UsableBot - UsableTop) \div 4) : k \in 0 .. 4}

\* fresh instances whose tile grid comes with the correct tiles selected
NewChallengePreselected(cid, tiles, paths, positions, words) ==
    CASE cid \in {"traffic_light", "bus"} ->
            {[NoChallenge EXCEPT !.id = cid, !.correct_tiles = layout,
                                 !.selected = layout]
                : layout \in tiles}
      [] cid = "crosswalk" ->
            {[NoChallenge EXCEPT !.id = cid, !.correct_tiles = layout]
                : layout \in paths}
      [] cid = "checkbox" ->
            {[NoChallenge EXCEPT !.id = cid, !.box_x = p[1], !.box_y = p[2]]
                : p \in positions}
      [] cid = "shuffle" ->
            {[NoChallenge EXCEPT !.id = cid, !.word = w] : w \in words}

\* cls() followed by instance.reset(): the possible fresh instances of a
\* variant, for the given outcomes of the random calls
NewChallengeFrom(cid, tiles, paths, positions, words) ==
    CASE cid \in {"traffic_light", "bus"} ->
            {[NoChallenge EXCEPT !.id = cid, !.correct_tiles = layout]
                : layout \in tiles}
      [] cid = "crosswalk" ->
            {[NoChallenge EXCEPT !.id = cid, !.correct_tiles = layout]
                : layout \in paths}
      [] cid = "checkbox" ->
            {[NoChallenge EXCEPT !.id = cid, !.box_x = p[1], !.box_y = p[2]]
                : p \in positions}
      [] cid = "shuffle" ->
            {[NoChallenge EXCEPT !.id = cid, !.word = w] : w \in words}

\* the fresh instances the Game and the factory are run with
NewChallenge(cid) ==
    NewChallengeFrom(cid, TileLayouts, PathLayouts, BoxPositions, Words)

\* CheckboxChallenge._box_rect
BoxRect(c) == Rect(c.box_x, c.box_y, BOX_SIZE, BOX_SIZE)

Abs(n) == IF n < 0 THEN -n ELSE n

\* `dist_sq < FLEE_RADIUS ** 2` for the cursor at p
CursorNear(c, p) ==
    LET cx == c.box_x + BOX_SIZE \div 2
        cy == c.box_y + BOX_SIZE \div 2
        dist_sq == (p[1] - cx) * (p[1] - cx) + (p[2] - cy) * (p[2] - cy)
    IN  dist_sq < FLEE_RADIUS * FLEE_RADIUS

\* a _try_flee that still flees when dodges equals MAX_DODGES
TryFleeOffByOne(c, p, positions) ==
    IF c.checked \/ c.dodges > MAX_DODGES THEN {c}
    ELSE IF CursorNear(c, p)
         THEN {[c EXCEPT !.box_x = n[1], !.box_y = n[2], !.dodges = c.dodges + 1]
                 : n \in {q \in positions :
                            ~(/\ Abs(q[1] - c.box_x) < BOX_SIZE * 2
                              /\ Abs(q[2] - c.box_y) < BOX_SIZE * 2)}}
         ELSE {c}

\* a _try_flee without the retry loop
TryFleeAnywhere(c, p, positions) ==
    IF c.checked \/ c.dodges >= MAX_DODGES THEN {c}
    ELSE IF CursorNear(c, p)
         THEN {[c EXCEPT !.box_x = n[1], !.box_y = n[2], !.dodges = c.dodges + 1]
                 : n \in positions}
         ELSE {c}

\* CheckboxChallenge._try_flee: the possible results, for the given outcomes
\* of _random_position; the while loop draws again until the new position is
\* not within 2 * BOX_SIZE of the old one on both axes
TryFleeFrom(c, p, positions) ==
    IF c.checked \/ c.dodges >= MAX_DODGES THEN {c}
    ELSE IF CursorNear(c, p)
         THEN {[c EXCEPT !.box_x = n[1], !.box_y = n[2], !.dodges = c.dodges + 1]
                 : n \in {q \in positions :
                            ~(/\ Abs(q[1] - c.box_x) < BOX_SIZE * 2
                              /\ Abs(q[2] - c.box_y) < BOX_SIZE * 2)}}
         ELSE {c}

TryFlee(c, p) == TryFleeFrom(c, p, BoxPositions)

\* <Variant>.handle_event: the possible results
ChallengeHandleEventFrom(c, e, positions) ==
    CASE c.id \in GridIds ->
            IF e.type = "MOUSEBUTTONDOWN" /\ e.button = 1
            THEN {[c EXCEPT !.selected = GridHandleClick(c.selected, e.pos)]}
            ELSE {c}
      [] c.id = "checkbox" ->
            IF e.type = "MOUSEMOTION" THEN TryFleeFrom(c, e.pos, positions)
            ELSE IF e.type = "MOUSEBUTTONDOWN" /\ e.button = 1
                 THEN IF CollidePoint(BoxRect(c), e.pos)
                      THEN {[c EXCEPT !.checked = TRUE]}
                      ELSE {c}
                 ELSE {c}
      [] c.id = "shuffle" ->
            IF e.type # "KEYDOWN" THEN {c}
            ELSE IF e.key = "K_BACKSPACE"
                 THEN {[c EXCEPT !.typed =
                          IF Len(c.typed) = 0 THEN <<>>
                          ELSE SubSeq(c.typed, 1, Len(c.typed) - 1)]}
                 ELSE IF Len(c.typed) < Len(c.word)
                      THEN LET char == UpperStr(e.unicode)
                           IN  IF IsAlphaStr(char)
                               THEN {[c EXCEPT !.typed = c.typed \o char]}
                               ELSE {c}
                      ELSE {c}
      [] OTHER -> {c}

ChallengeHandleEvent(c, e) == ChallengeHandleEventFrom(c, e, BoxPositions)

\* <Variant>.is_solved
IsSolved(c) ==
    CASE c.id \in GridIds -> c.selected = c.correct_tiles
      [] c.id = "checkbox" -> c.checked
      [] c.id = "shuffle" -> UpperSeq(c.typed) = UpperSeq(c.word)
      [] OTHER -> FALSE

----------------------------------------------------------------------------
(* challenges/registry.py and core/challenge_factory.py *)

RegistryIds == {"traffic_light", "bus", "checkbox", "crosswalk", "shuffle"}

\* CHALLENGE_REGISTRY: base_weight
Weight(cid) ==
    CASE cid = "traffic_light" -> 10
      [] cid = "bus" -> 10
      [] cid = "checkbox" -> 10
      [] cid = "crosswalk" -> 7
      [] cid = "shuffle" -> 5

\* the variants' difficulty class attribute
Difficulty(cid) ==
    CASE cid \in {"traffic_light", "bus", "checkbox"} -> "easy"
      [] cid = "crosswalk" -> "medium"
      [] cid = "shuffle" -> "hard"

\* registry._resolve_min_round, stamped on each class at import time
MinRound(cid) == DIFFICULTY_THRESHOLDS[Difficulty(cid)]

\* a round gate that lets every entry through
EligibleUngated(round_num) == registry

\* next_challenge, step 1
Eligible(round_num) == {cid \in registry : round_num >= MinRound(cid)}

\* a pool without the no-repeat filter
PoolWithRepeat(last, round_num) == Eligible(round_num)

\* a pool without the fallback to the eligible set
PoolNoFallback(last, round_num) == {cid \in Eligible(round_num) : cid # last}

\* next_challenge, steps 2 and 3
Pool(last, round_num) ==
    LET no_repeat == {cid \in Eligible(round_num) : cid # last}
    IN  IF no_repeat # {} THEN no_repeat ELSE Eligible(round_num)

\* the order of CHALLENGE_REGISTRY's keys, which the dict comprehensions keep
RegistryOrder == <<"traffic_light", "bus", "checkbox", "crosswalk", "shuffle">>

\* ids = list(pool.keys())
PoolSeq(pool) == SelectSeq(RegistryOrder, LAMBDA cid : cid \in pool)

\* the first i entries of itertools.accumulate(weights)
RECURSIVE CumWeight(_, _)
CumWeight(ids, i) ==
    IF i = 0 THEN 0 ELSE CumWeight(ids, i - 1) + Weight(ids[i])

TotalWeight(ids) == CumWeight(ids, Len(ids))

\* a choice that gives every entry the same share
RandomChoicesUniform(ids, u) == ids[(u % Len(ids)) + 1]

\* random.choices(ids, weights=weights, k=1)[0]:
\* population[bisect(cum_weights, random() * total)], with u the whole part
\* of random() * total, uniform on 0 .. total - 1 (the weights are integers)
RandomChoices(ids, u) ==
    ids[CHOOSE i \in 1 .. Len(ids) :
            CumWeight(ids, i - 1) <= u /\ u < CumWeight(ids, i)]

\* the ids the draw can select from each pool, one outcome u at a time
DrawnIds ==
    [pool \in SUBSET RegistryIds |->
        LET ids == PoolSeq(pool)
        IN  {RandomChoices(ids, u) : u \in 0 .. TotalWeight(ids) - 1}]

\* a next_challenge that dispenses some registered class when none is eligible
NextChallengeSilent(last, round_num) ==
    LET pool == IF Eligible(round_num) = {}
                THEN RegistryIds
                ELSE Pool(last, round_num)
    IN  UNION {{<<cid, inst>> : inst \in NewChallenge(cid)}
                 : cid \in DrawnIds[pool]}

\* next_challenge, steps 4 and 5: the possible <<chosen_id, instance>>, one
\* for each outcome u of the draw and each outcome of the constructor.
\* Empty when the call raises RuntimeError (no eligible entry).
NextChallenge(last, round_num) ==
    IF Eligible(round_num) = {} THEN {}
    ELSE UNION {{<<cid, inst>> : inst \in NewChallenge(cid)}
                  : cid \in DrawnIds[Pool(last, round_num)]}

\* a reset_history that keeps the history
ResetHistoryKeeps(last) == last

\* reset_history: the new _last_id
ResetHistory(last) == "None"

----------------------------------------------------------------------------
(* core/game.py: Game *)

\* Game.__init__ followed by main.py's game.start_menu()
Init ==
    /\ state = "MENU"
    /\ session = SessionReset(SessionInit)
    /\ timer = TimerInit
    /\ last_id = "None"
    /\ challenge = NoChallenge
    /\ btn_rect = NoneRect
    /\ hover = FALSE
    /\ calls = 0
    /\ registry = RegistryIds

\* a load that always starts the timer for round 1
LoadNextChallengeRoundOne(s, last) ==
    /\ \E pair \in NextChallenge(last, s.round_num) :
          /\ last_id' = pair[1]
          /\ challenge' = pair[2]
    /\ timer' = TimerStart(timer, 1)
    /\ hover' = FALSE

\* a load that leaves the timer as the last round left it
LoadNextChallengeNoTimer(s, last) ==
    /\ \E pair \in NextChallenge(last, s.round_num) :
          /\ last_id' = pair[1]
          /\ challenge' = pair[2]
    /\ timer' = timer
    /\ hover' = FALSE

\* a load that asks a factory without history
LoadNextChallengeNoHistory(s, last) ==
    /\ \E pair \in NextChallenge("None", s.round_num) :
          /\ last_id' = pair[1]
          /\ challenge' = pair[2]
    /\ timer' = TimerStart(timer, s.round_num)
    /\ hover' = FALSE

\* Game._load_next_challenge, for the session s and the factory history last
\* it runs on; next_challenge raising RuntimeError would end the program
LoadNextChallenge(s, last) ==
    /\ \E pair \in NextChallenge(last, s.round_num) :
          /\ last_id' = pair[1]
          /\ challenge' = pair[2]
    /\ timer' = TimerStart(timer, s.round_num)
    /\ hover' = FALSE

\* Game.start_menu
StartMenu ==
    /\ session' = SessionReset(session)
    /\ last_id' = "None"
    /\ challenge' = NoChallenge
    /\ state' = "MENU"
    /\ UNCHANGED <<timer, btn_rect, hover>>

\* Game.start_game
StartGame ==
    /\ session' = SessionReset(session)
    /\ LoadNextChallenge(SessionReset(session), "None")
    /\ state' = "PLAYING"
    /\ UNCHANGED btn_rect

\* a _submit with the verdict inverted
SubmitInverted ==
    /\ timer' = TimerStop(timer)
    /\ IF challenge.id # "None" /\ IsSolved(challenge)
       THEN session' = RegisterFail(session)
       ELSE session' = RegisterPass(session)
    /\ state' = "FLASH"
    /\ UNCHANGED <<last_id, challenge, btn_rect, hover>>

\* Game._submit
Submit ==
    /\ timer' = TimerStop(timer)
    /\ IF challenge.id # "None" /\ IsSolved(challenge)
       THEN session' = RegisterPass(session)
       ELSE session' = RegisterFail(session)
    /\ state' = "FLASH"
    /\ UNCHANGED <<last_id, challenge, btn_rect, hover>>

\* a _handle_timeout that judges the challenge as _submit does
HandleTimeoutJudged(t, s) ==
    /\ timer' = TimerStop(t)
    /\ IF challenge.id # "None" /\ IsSolved(challenge)
       THEN session' = RegisterPass(s)
       ELSE session' = RegisterFail(s)
    /\ state' = "FLASH"

\* a _handle_timeout that registers the fail and stays in PLAYING
HandleTimeoutKeepsPlaying(t, s) ==
    /\ timer' = TimerStop(t)
    /\ session' = RegisterFail(s)
    /\ state' = "PLAYING"

\* Game._handle_timeout, on the timer t and session s that update has ticked
HandleTimeout(t, s) ==
    /\ timer' = TimerStop(t)
    /\ session' = RegisterFail(s)
    /\ state' = "FLASH"

\* `self._btn_rect and self._btn_rect.collidepoint(pos)`
OnButton(p) == RectTruthy(btn_rect) /\ CollidePoint(btn_rect, p)

\* a click test that forgets the button
AnyClick(e) == e.type = "MOUSEBUTTONDOWN"

\* `event.type == pygame.MOUSEBUTTONDOWN and event.button == 1`
LeftClick(e) == e.type = "MOUSEBUTTONDOWN" /\ e.button = 1

\* self.challenge.handle_event(event)
Forward(e) ==
    /\ challenge' \in ChallengeHandleEvent(challenge, e)
    /\ UNCHANGED <<state, session, timer, last_id, btn_rect, hover>>

\* Game._handle_menu_event
HandleMenuEvent(e) ==
    IF LeftClick(e) /\ OnButton(e.pos) THEN StartGame ELSE UNCHANGED gvars

\* Game._handle_playing_event
HandlePlayingEvent(e) ==
    IF LeftClick(e) /\ OnButton(e.pos)
    THEN Submit
    ELSE IF e.type = "MOUSEMOTION" /\ challenge.id = "checkbox"
         THEN Forward(e)
         ELSE IF challenge.id # "None" THEN Forward(e) ELSE UNCHANGED gvars

\* Game._handle_gameover_event
HandleGameoverEvent(e) ==
    IF LeftClick(e) /\ OnButton(e.pos) THEN StartMenu ELSE UNCHANGED gvars

\* a handle_event that routes FLASH like PLAYING
HandleEventFlashOpen(e) ==
    CASE state = "MENU" -> HandleMenuEvent(e)
      [] state \in {"PLAYING", "FLASH"} -> HandlePlayingEvent(e)
      [] state = "GAMEOVER" -> HandleGameoverEvent(e)
      [] OTHER -> UNCHANGED gvars

\* Game.handle_event
HandleEvent(e) ==
    CASE state = "MENU" -> HandleMenuEvent(e)
      [] state = "PLAYING" -> HandlePlayingEvent(e)
      [] state = "GAMEOVER" -> HandleGameoverEvent(e)
      [] OTHER -> UNCHANGED gvars

\* Game.update
Update(dt, game_mouse_pos) ==
    CASE state = "PLAYING" ->
            LET t == TimerUpdate(timer, dt)
                s == UpdateFlash(session, dt)
            IN  /\ hover' = IF RectTruthy(btn_rect)
                            THEN CollidePoint(btn_rect, game_mouse_pos)
                            ELSE hover
                /\ IF IsExpired(t)
                   THEN HandleTimeout(t, s)
                   ELSE timer' = t /\ session' = s /\ state' = state
                /\ UNCHANGED <<last_id, challenge, btn_rect>>
      [] state = "FLASH" ->
            LET s == UpdateFlash(session, dt)
                alpha == FlashState(s)[2]
            IN  /\ session' = s
                /\ IF alpha <= 0
                   THEN IF IsGameOver(s)
                        THEN /\ state' = "GAMEOVER"
                             /\ UNCHANGED <<timer, last_id, challenge, hover>>
                        ELSE /\ LoadNextChallenge(s, last_id)
                             /\ state' = "PLAYING"
                   ELSE UNCHANGED <<state, timer, last_id, challenge, hover>>
                /\ UNCHANGED btn_rect
      [] OTHER ->
            /\ hover' = IF RectTruthy(btn_rect)
                        THEN CollidePoint(btn_rect, game_mouse_pos)
                        ELSE hover
            /\ UNCHANGED <<state, session, timer, last_id, challenge, btn_rect>>

\* Game.render: the rectangle each screen's draw function returns
Render ==
    /\ btn_rect' = CASE state = "MENU" -> MenuButtonRect
                     [] state \in {"PLAYING", "FLASH"} -> VerifyButtonRect
                     [] state = "GAMEOVER" -> GameOverButtonRect
    /\ UNCHANGED <<state, session, timer, last_id, challenge, hover>>

\* every call counts, and none writes to CHALLENGE_REGISTRY
Called == calls' = 1 - calls /\ UNCHANGED registry

HandleEventStep ==
    \E e \in Events : HandleEvent(e) /\ session'.round_num <= MaxRound /\ Called

UpdateStep ==
    \E dt \in DtValues, p \in UpdatePoints :
        Update(dt, p) /\ session'.round_num <= MaxRound /\ Called

RenderStep == Render /\ Called

Next == HandleEventStep \/ UpdateStep \/ RenderStep

Spec == Init /\ [][Next]_vars

\* Long games: left clicks only, and frames long enough to end a flash
\* (dt = 450 ms) or a round (dt = 12 s)
LongDtValues == {450, 12000}

LongEventStep ==
    \E e \in ClickEvents :
        HandleEvent(e) /\ session'.round_num <= MaxLongRound /\ Called

LongUpdateStep ==
    \E dt \in LongDtValues :
        Update(dt, <<10, 100>>) /\ session'.round_num <= MaxLongRound /\ Called

LongRenderStep == Render /\ Called

LongNext == LongEventStep \/ LongUpdateStep \/ LongRenderStep

LongSpec == Init /\ [][LongNext]_vars

----------------------------------------------------------------------------
(* The Session on its own: its methods called in any order *)

\* register_fail is not taken once strikes has reached MaxFails
MaxFails == 4

SessionOnly == UNCHANGED <<state, timer, last_id, challenge, btn_rect, hover>>

SessPass ==
    /\ session.round_num < MaxLongRound
    /\ session' = RegisterPass(session)
    /\ SessionOnly /\ Called

SessFail ==
    /\ session.strikes < MaxFails
    /\ session' = RegisterFail(session)
    /\ SessionOnly /\ Called

SessUpdateFlash ==
    /\ \E dt \in DtValues : session' = UpdateFlash(session, dt)
    /\ SessionOnly /\ Called

SessReset ==
    /\ session' = SessionReset(session)
    /\ SessionOnly /\ Called

SessionNext == SessPass \/ SessFail \/ SessUpdateFlash \/ SessReset

SessionSpec == Init /\ [][SessionNext]_vars

----------------------------------------------------------------------------
(* The Timer on its own: start, stop and update called in any order *)

\* start is called with round numbers 1 .. MaxTimerRound
MaxTimerRound == 22

TimerRounds == 1 .. MaxTimerRound

\* dt handed to Timer.update, in ms: none, one decay step, a third of the
\* first limit, more than any limit
TimerDtValues == {0, 400, 4000, 13000}

TimerOnly == UNCHANGED <<state, session, last_id, challenge, btn_rect, hover>>

TimStartCall(round_num) ==
    timer' = TimerStart(timer, round_num) /\ TimerOnly /\ Called

TimUpdateCall(dt) ==
    timer' = TimerUpdate(timer, dt) /\ TimerOnly /\ Called

TimStart == \E round_num \in TimerRounds : TimStartCall(round_num)

TimStop == timer' = TimerStop(timer) /\ TimerOnly /\ Called

TimUpdate == \E dt \in TimerDtValues : TimUpdateCall(dt)

TimerNext == TimStart \/ TimStop \/ TimUpdate

TimerSpec == Init /\ [][TimerNext]_vars

----------------------------------------------------------------------------
(* The ChallengeFactory on its own, over registries made of the shipped     *)
(* entries: next_challenge and reset_history called in any order            *)

\* next_challenge is called with round numbers 1 .. MaxFactoryRound
MaxFactoryRound == 8

FactoryRounds == 1 .. MaxFactoryRound

\* CHALLENGE_REGISTRY with any of its entries present
Registries == SUBSET RegistryIds

FactoryInit ==
    /\ state = "MENU"
    /\ session = SessionReset(SessionInit)
    /\ timer = TimerInit
    /\ last_id = "None"
    /\ challenge = NoChallenge
    /\ btn_rect = NoneRect
    /\ hover = FALSE
    /\ calls = 0
    /\ registry \in Registries

FactoryOnly == UNCHANGED <<state, session, timer, btn_rect, hover>>

\* next_challenge(round_num); challenge holds the instance returned. When
\* the call raises (no eligible entry) nothing has been written.
FactNextCall(round_num) ==
    /\ IF NextChallenge(last_id, round_num) = {}
       THEN UNCHANGED <<last_id, challenge>>
       ELSE \E x \in NextChallenge(last_id, round_num) :
                last_id' = x[1] /\ challenge' = x[2]
    /\ FactoryOnly /\ Called

FactNext == \E round_num \in FactoryRounds : FactNextCall(round_num)

\* reset_history
FactReset == last_id' = ResetHistory(last_id) /\ UNCHANGED challenge /\ FactoryOnly /\ Called

FactoryNext == FactNext \/ FactReset

FactorySpec == FactoryInit /\ [][FactoryNext]_vars

----------------------------------------------------------------------------
(* A challenge on its own: constructed, then handle_event and reset called  *)
(* in any order, over every outcome of the tile and path generators         *)

\* clicks on three tiles (the first also on the checkbox at (156, 202)), in
\* the gap between two tiles, on the checkbox at (24, 108), beside
\* everything, and a right click on a tile
ChallengeClicks ==
    [type : {"MOUSEBUTTONDOWN"}, button : {1},
     pos : {<<180, 226>>, <<180, 340>>, <<76, 226>>, <<128, 226>>,
            <<48, 132>>, <<10, 100>>},
     key : {"None"}, unicode : {""}]
    \cup
    [type : {"MOUSEBUTTONDOWN"}, button : {3}, pos : {<<180, 226>>},
     key : {"None"}, unicode : {""}]

\* the pointer moved onto the centre of a sampled checkbox position, or 50 px
\* to the right of one
ChallengeMotions ==
    [type : {"MOUSEMOTION"}, button : {0},
     pos : {<<p[1] + BOX_SIZE \div 2, p[2] + BOX_SIZE \div 2>> : p \in PositionSamples}
           \cup {<<230, 226>>},
     key : {"None"}, unicode : {""}]

\* keys: letters of either case, a digit, a key without text, the letter
\* whose upper case has two characters, and backspace
ChallengeKeys ==
    {[type |-> "KEYDOWN", button |-> 0, pos |-> NoPos, key |-> k[1], unicode |-> k[2]]
       : k \in {<<"K_c", "c">>, <<"K_r", "R">>, <<"K_a", "a">>, <<"K_n", "n">>,
                <<"K_e", "e">>, <<"K_1", "1">>, <<"K_LSHIFT", "">>,
                <<"K_SS", "ß">>, <<"K_BACKSPACE", "">>}}

ChallengeEvents == ChallengeClicks \cup ChallengeMotions \cup ChallengeKeys

ChallengeOnly == UNCHANGED <<state, session, timer, last_id, btn_rect, hover>>

\* every fresh instance of the variant cid
FreshChallenge(cid) ==
    NewChallengeFrom(cid, RandomiseTiles, GeneratedPaths, PositionSamples, Words)

\* cls()
ChNew ==
    /\ challenge.id = "None"
    /\ \E cid \in RegistryIds : challenge' \in FreshChallenge(cid)
    /\ ChallengeOnly /\ Called

\* challenge.reset()
ChReset ==
    /\ challenge.id # "None"
    /\ challenge' \in FreshChallenge(challenge.id)
    /\ ChallengeOnly /\ Called

\* challenge.handle_event(e)
ChEventCall(e) ==
    /\ challenge.id # "None"
    /\ challenge' \in ChallengeHandleEventFrom(challenge, e, PositionSamples)
    /\ ChallengeOnly /\ Called

ChEvent == \E e \in ChallengeEvents : ChEventCall(e)

ChallengeNext == ChNew \/ ChReset \/ ChEvent

ChallengeSpec == Init /\ [][ChallengeNext]_vars

----------------------------------------------------------------------------
(* The flash of a Session: register_pass, register_fail and update_flash   *)
(* called in any order, update_flash with negative dt as well              *)

\* no register_pass is taken at round MaxFlashRound
MaxFlashRound == 3

\* update_flash with a negative dt is not taken when it would raise the
\* flash timer above MaxFlashTimer (ms)
MaxFlashTimer == 650

\* frame deltas in ms: a clock that stepped back, none, part of a flash,
\* a whole flash
FlashDtValues == {-100, 0, 100, 450}

FlPass ==
    /\ session.round_num < MaxFlashRound
    /\ session' = RegisterPass(session)
    /\ SessionOnly /\ Called

FlFail ==
    /\ session.strikes < MAX_STRIKES
    /\ session' = RegisterFail(session)
    /\ SessionOnly /\ Called

\* session.update_flash(dt)
FlUpdateCall(dt) ==
    /\ session.flash_timer - dt <= MaxFlashTimer
    /\ session' = UpdateFlash(session, dt)
    /\ SessionOnly /\ Called

FlUpdate == \E dt \in FlashDtValues : FlUpdateCall(dt)

FlashNext == FlPass \/ FlFail \/ FlUpdate

FlashSpec == Init /\ [][FlashNext]_vars

\* click sequences of up to MaxClicks clicks are replayed on a grid
MaxClicks == 4

----------------------------------------------------------------------------
(* The game under main.py's frame loop: update is called again and again   *)
(* with dt > 0, between any clicks and renders                             *)

\* no step takes round_num above MaxLiveRound
MaxLiveRound == 2

\* frame deltas above 0, in ms
LiveDtValues == {400, 4000}

LiveEventStep ==
    \E e \in ClickEvents :
        HandleEvent(e) /\ session'.round_num <= MaxLiveRound /\ Called

\* game.update(dt, mouse_game) with dt > 0
LiveFrame == \E dt \in LiveDtValues : Update(dt, <<10, 100>>) /\ Called

\* game.update(0, mouse_game)
LiveIdleFrame == Update(0, <<10, 100>>) /\ Called

LiveRenderStep == Render /\ Called

LiveNext == LiveEventStep \/ LiveFrame \/ LiveIdleFrame \/ LiveRenderStep

\* the `while running` loop reaches game.update in every iteration
LiveSpec == Init /\ [][LiveNext]_vars /\ WF_vars(LiveFrame)

----------------------------------------------------------------------------
(* Properties *)

\* s2 is s after one pass / one fail, field by field
PassOf(s, s2) ==
    /\ s2.score = s.score + BASE_SCORE * (1 + s.streak)
    /\ s2.streak = s.streak + 1
    /\ s2.round_num = s.round_num + 1
    /\ s2.strikes = s.strikes

FailOf(s, s2) ==
    /\ s2.strikes = s.strikes + 1
    /\ s2.streak = 0
    /\ s2.round_num = s.round_num
    /\ s2.score = s.score

\* e is a left-button click inside the rectangle cached in btn_rect
ClickInsideCached(e) ==
    /\ e.type = "MOUSEBUTTONDOWN" /\ e.button = 1
    /\ ~btn_rect.isNone
    /\ btn_rect.x <= e.pos[1] /\ e.pos[1] < btn_rect.x + btn_rect.w
    /\ btn_rect.y <= e.pos[2] /\ e.pos[2] < btn_rect.y + btn_rect.h

\* C1: strikes < MAX_STRIKES whenever the state is PLAYING, strikes never
\* exceeds MAX_STRIKES, and the state is GAMEOVER only with
\* strikes >= MAX_STRIKES.
C1_StrikesBound ==
    /\ state = "PLAYING" => session.strikes < MAX_STRIKES
    /\ session.strikes <= MAX_STRIKES
    /\ state = "GAMEOVER" => session.strikes >= MAX_STRIKES

C1_Witness == state = "GAMEOVER" /\ session.strikes = MAX_STRIKES

\* C2: in PLAYING a left click inside the cached button rectangle stops the
\* timer (elapsed and limit kept), applies one register_pass if the challenge
\* is solved and one register_fail otherwise, and sets the state to FLASH.
C2_VerifyClick ==
    [][\A e \in Events :
         (state = "PLAYING" /\ ClickInsideCached(e) /\ HandleEvent(e))
         => /\ state' = "FLASH"
            /\ timer' = [timer EXCEPT !.running = FALSE]
            /\ IF IsSolved(challenge)
               THEN PassOf(session, session')
               ELSE FailOf(session, session')]_vars

\* a pass registered by a verify click: the timer is stopped short of its limit
C2_Witness ==
    /\ state = "FLASH"
    /\ session.flash_color = "pass" /\ session.flash_timer = FLASH_DURATION
    /\ ~timer.running /\ timer.elapsed < timer.limit
    /\ session.score = BASE_SCORE * 3

\* C3: in PLAYING, an update that makes the timer expired stops the timer,
\* registers one fail (strikes + 1, streak 0, round_num and score kept) and
\* enters FLASH, whether or not the challenge is solved.
C3_TimeoutFails ==
    [][\A dt \in DtValues, p \in UpdatePoints :
         (state = "PLAYING" /\ Update(dt, p) /\ timer'.elapsed >= timer'.limit)
         => /\ state' = "FLASH"
            /\ ~timer'.running
            /\ FailOf(session, session')
            /\ session'.flash_color = "fail"]_vars

\* the timer ran out on a solved challenge, and a fail was registered
C3_Witness ==
    /\ state = "FLASH"
    /\ timer.elapsed >= timer.limit /\ ~timer.running
    /\ IsSolved(challenge)
    /\ session.flash_color = "fail" /\ session.flash_timer = FLASH_DURATION

\* C4: a step from FLASH that leaves the flash timer above 0 keeps the state
\* (and the timer and the challenge); the step in which the flash timer
\* reaches 0 goes to GAMEOVER if strikes >= MAX_STRIKES and otherwise to
\* PLAYING with a challenge from next_challenge(round_num) and the timer
\* started for round_num.
C4_FlashEnds ==
    [][state = "FLASH" =>
         IF session'.flash_timer > 0
         THEN state' = "FLASH" /\ timer' = timer /\ challenge' = challenge
         ELSE IF session.strikes >= MAX_STRIKES
              THEN state' = "GAMEOVER" /\ challenge' = challenge
              ELSE /\ state' = "PLAYING"
                   /\ session'.round_num = session.round_num
                   /\ <<last_id', challenge'>> \in NextChallenge(last_id, session.round_num)
                   /\ timer' = [limit |-> Max(TIMER_MIN_S,
                                              TIMER_START_S
                                                - (session.round_num - 1) * TIMER_DECAY),
                                elapsed |-> 0, running |-> TRUE]]_vars

\* the round after a pass has been loaded
C4_Witness ==
    /\ state = "PLAYING"
    /\ session.round_num = 2 /\ session.flash_timer = 0
    /\ timer.running /\ timer.elapsed = 0 /\ timer.limit = TIMER_START_S - TIMER_DECAY

\* a pass that takes round_num across a multiple of 5 rounds completed is
\* one that sets level_up
LevelBoundary(round_num) == (round_num - 1) % 5 = 0

\* C5: when the flash ends after a pass that crossed a level boundary, and
\* the game is not over, the state becomes LEVELUP (and only later PLAYING).
C5_EntersLevelUp ==
    [][(/\ state = "FLASH" /\ state' # "FLASH"
        /\ session.flash_color = "pass"
        /\ LevelBoundary(session.round_num)
        /\ session.strikes < MAX_STRIKES)
       => state' = "LEVELUP"]_vars

\* C6: in FLASH (and LEVELUP) handle_event changes neither the state, the
\* session, the timer, the factory history nor the challenge, whatever the
\* event.
C6_FlashIgnoresInput ==
    [][\A e \in Events :
         (state \in {"FLASH", "LEVELUP"} /\ HandleEvent(e))
         => UNCHANGED <<state, session, timer, last_id, challenge>>]_vars

\* in FLASH with the verify rectangle cached: a click on it would count in PLAYING
C6_Witness ==
    /\ state = "FLASH" /\ btn_rect = VerifyButtonRect
    /\ session.flash_timer < FLASH_DURATION /\ session.flash_timer > 0

\* C7: every step from MENU to PLAYING leaves the session at round 1,
\* score 0, streak 0, strikes 0 and no flash.
C7_FreshSessionOnStart ==
    [][(state = "MENU" /\ state' = "PLAYING")
       => session' = [round_num |-> 1, score |-> 0, streak |-> 0, strikes |-> 0,
                      flash_color |-> "None", flash_timer |-> 0]]_vars

\* a game started after an earlier one ended: the retry rectangle is still cached
C7_Witness ==
    /\ state = "PLAYING" /\ btn_rect = GameOverButtonRect
    /\ session.round_num = 1 /\ session.score = 0 /\ session.strikes = 0

\* C8: in MENU and GAMEOVER a left click inside the cached rectangle moves
\* MENU to PLAYING and GAMEOVER to MENU, every other event leaves the state,
\* session, timer and factory unchanged, and nothing else leaves these states.
C8_MenuAndGameoverInput ==
    [][(state \in {"MENU", "GAMEOVER"}) =>
         ( /\ \A e \in Events :
                HandleEvent(e) =>
                   IF ClickInsideCached(e)
                   THEN state' = (IF state = "MENU" THEN "PLAYING" ELSE "MENU")
                   ELSE UNCHANGED <<state, session, timer, last_id>>
           /\ (state' # state) =>
                (\E e \in Events : (ClickInsideCached(e) /\ HandleEvent(e))) )
      ]_vars

\* back in MENU by the retry click: the retry rectangle is still cached
C8_Witness == state = "MENU" /\ btn_rect = GameOverButtonRect

\* C9: in PLAYING a left click on the verify button (the rectangle
\* draw_verify_button returns) leaves the challenge as it is; every other
\* event has the effect of one challenge.handle_event(event) on the
\* challenge and none on the session or the timer.
C9_PlayingRouting ==
    [][\A e \in Events :
         (state = "PLAYING" /\ HandleEvent(e))
         => IF LeftClick(e) /\ CollidePoint(VerifyButtonRect, e.pos)
            THEN challenge' = challenge
            ELSE /\ challenge' \in ChallengeHandleEvent(challenge, e)
                 /\ session' = session
                 /\ timer' = timer]_vars

\* C10: a register_pass adds BASE_SCORE * (1 + streak) to the score and 1 to
\* streak and round_num; with no fail since the session was fresh,
\* score = BASE_SCORE * N * (N + 1) / 2, streak = N and round_num = 1 + N.
C10_ScoreLaw ==
    /\ [][SessPass => PassOf(session, session')]_vars
    /\ [](session.strikes = 0 =>
            /\ 2 * session.score = BASE_SCORE * session.streak * (session.streak + 1)
            /\ session.round_num = 1 + session.streak)

\* four passes in a row
C10_Witness ==
    /\ session.strikes = 0 /\ session.streak = 4
    /\ session.score = BASE_SCORE * 10 /\ session.round_num = 5

\* C11: a register_fail adds exactly 1 to strikes and sets streak to 0; the
\* round number and the score stay as they were.
C11_FailKeepsRound ==
    [][SessFail =>
         /\ session'.strikes = session.strikes + 1
         /\ session'.streak = 0
         /\ session'.round_num = session.round_num
         /\ session'.score = session.score]_vars

\* a fail after two passes: still at round 3 with the 300 points
C11_Witness ==
    /\ session.strikes = 1 /\ session.streak = 0
    /\ session.round_num = 3 /\ session.score = 3 * BASE_SCORE
    /\ session.flash_color = "fail"

\* C12: strikes counts the register_fail calls since the session was fresh
\* (a fail adds 1, a pass leaves it, a reset clears it), and is_game_over()
\* is true exactly from MAX_STRIKES of them on.
C12_StrikeLaw ==
    /\ [][SessFail => session'.strikes = session.strikes + 1]_vars
    /\ [][SessPass => session'.strikes = session.strikes]_vars
    /\ [][SessReset => session'.strikes = 0 /\ ~IsGameOver(session')]_vars
    /\ [](IsGameOver(session) <=> session.strikes >= MAX_STRIKES)
    /\ [](session.strikes < MAX_STRIKES => ~IsGameOver(session))

\* the third fail, with passes in between
C12_Witness ==
    /\ session.strikes = MAX_STRIKES /\ IsGameOver(session)
    /\ session.round_num = 3 /\ session.streak = 0

\* C13 as stated: a register_pass made after a fail sets streak to 0.
C13_PassResetsStreak ==
    [][(SessPass /\ session.strikes > 0) => session'.streak = 0]_vars

\* C13 as amended: a register_pass interleaved among fails adds 1 to streak
\* (to 1 when it follows a fail); the call that sets streak to 0 is
\* register_fail.
C13_PassExtendsStreak ==
    /\ [][(SessPass /\ session.strikes > 0)
           => session'.streak = session.streak + 1]_vars
    /\ [][(SessPass /\ session.strikes > 0 /\ session.flash_color = "fail")
           => session'.streak = 1]_vars
    /\ [][SessFail => session'.streak = 0]_vars

\* fail, pass, pass, with a further fail to come
C13_Witness ==
    /\ session.strikes = 1 /\ session.streak = 2 /\ session.round_num = 3
    /\ session.flash_color = "pass"

\* C14: the session carries security_level and level_up: the pass that
\* completes a block of 5 rounds sets level_up and raises security_level to
\* floor((round_num - 1) / 5) + 1.
C14_LevelUpOnFifthPass ==
    [][(SessPass /\ LevelBoundary(session'.round_num))
       => /\ {"security_level", "level_up"} \subseteq DOMAIN session'
          /\ session'.level_up = TRUE
          /\ session'.security_level = ((session'.round_num - 1) \div 5) + 1]_vars

\* C15: start(round_num) sets limit to
\* max(TIMER_MIN_S, TIMER_START_S - (round_num - 1) * TIMER_DECAY), which is
\* 12000 at round 1, 400 less per round and 4000 from round 21 on, sets
\* elapsed to 0 and running to true; right after it is_expired() is false
\* and fill() is 1.0.
C15_StartLimit ==
    [][\A r \in TimerRounds :
         TimStartCall(r)
         => /\ timer'.limit = Max(TIMER_MIN_S, TIMER_START_S - (r - 1) * TIMER_DECAY)
            /\ (r = 1) => timer'.limit = 12000
            /\ (r < 21) => timer'.limit = 12000 - (r - 1) * 400
            /\ (r >= 21) => timer'.limit = 4000
            /\ timer'.elapsed = 0 /\ timer'.running
            /\ ~IsExpired(timer')
            /\ Fill(timer') = timer'.limit]_vars

\* just started at a round where the floor applies
C15_Witness ==
    /\ timer.running /\ timer.elapsed = 0 /\ timer.limit = TIMER_MIN_S
    /\ ~IsExpired(timer)

\* C16: 0 <= elapsed <= limit always, and only a start makes elapsed smaller.
C16_ElapsedBounds ==
    /\ [](0 <= timer.elapsed /\ timer.elapsed <= timer.limit)
    /\ [][(\E r \in TimerRounds : TimStartCall(r))
           \/ timer'.elapsed >= timer.elapsed]_vars

\* stopped short of a limit that the next update would have overshot
C16_Witness ==
    /\ ~timer.running /\ timer.limit = 4400 /\ timer.elapsed = 4000

\* C17: an update(dt) of a running timer leaves it expired exactly when
\* elapsed + dt >= limit (elapsed being the dt accumulated since start, capped
\* at limit); elapsed is then exactly limit, fill() and remaining() are 0;
\* update(0) changes nothing.
C17_ExpiryExact ==
    [][\A dt \in TimerDtValues :
         TimUpdateCall(dt)
         => /\ timer.running
                => /\ IsExpired(timer') <=> (timer.elapsed + dt >= timer.limit)
                   /\ timer'.elapsed = Min(timer.elapsed + dt, timer.limit)
            /\ IsExpired(timer')
                => /\ timer'.elapsed = timer'.limit
                   /\ Fill(timer') = 0 /\ Remaining(timer') = 0
            /\ (dt = 0) => timer' = timer]_vars

\* run out while running
C17_Witness ==
    /\ timer.running /\ IsExpired(timer)
    /\ timer.elapsed = timer.limit /\ timer.limit = TIMER_START_S
    /\ Fill(timer) = 0 /\ Remaining(timer) = 0

\* C18: stop clears running and keeps elapsed and limit; an update of a
\* stopped timer changes nothing; a second stop changes nothing more.
C18_StopFreezes ==
    /\ [][TimStop => timer' = [timer EXCEPT !.running = FALSE]]_vars
    /\ [][\A dt \in TimerDtValues :
            (~timer.running /\ TimUpdateCall(dt)) => timer' = timer]_vars
    /\ [](TimerStop(TimerStop(timer)) = TimerStop(timer))

\* stopped part of the way through a shortened round
C18_Witness ==
    /\ ~timer.running
    /\ timer.elapsed = 800 /\ timer.limit = TIMER_START_S - TIMER_DECAY

\* C19: a next_challenge(round_num) call made when at least 2 entries are
\* eligible for round_num returns an entry eligible for round_num whose id
\* differs from the id the previous call returned.
C19_NoRepeat ==
    [][\A r \in FactoryRounds :
         (/\ FactNextCall(r)
          /\ Cardinality(Eligible(r)) >= 2
          /\ last_id # "None")
         => /\ last_id' # last_id
            /\ last_id' \in Eligible(r)
            /\ challenge'.id = last_id']_vars

\* with bus and crosswalk registered, crosswalk was returned after bus
C19_Witness ==
    /\ registry = {"bus", "crosswalk"}
    /\ last_id = "crosswalk" /\ challenge.id = "crosswalk" /\ calls = 0

\* C20: when exactly one entry is eligible for round_num,
\* next_challenge(round_num) can return that entry and nothing else, whatever
\* the previous call returned, and the call returns it.
C20_SingleEligible ==
    /\ [](\A r \in FactoryRounds :
            Cardinality(Eligible(r)) = 1
            => {x[1] : x \in NextChallenge(last_id, r)} = Eligible(r))
    /\ [][\A r \in FactoryRounds :
            (FactNextCall(r) /\ Cardinality(Eligible(r)) = 1)
            => /\ last_id' \in Eligible(r)
               /\ challenge'.id = last_id']_vars

\* only shuffle registered, and returned again
C20_Witness ==
    /\ registry = {"shuffle"}
    /\ last_id = "shuffle" /\ challenge.id = "shuffle" /\ calls = 0

\* ids a next_challenge(round_num) call can return after the id last
IdsOf(last, round_num) == {x[1] : x \in NextChallenge(last, round_num)}

\* C21: a call next_challenge(round_num) that returns, returns an entry whose
\* min_round is at most round_num: never crosswalk below round 5, never
\* shuffle below round 8; the easy entries that are registered can be
\* returned from round 1 on.
C21_RoundGate ==
    /\ [][\A r \in FactoryRounds :
            (FactNextCall(r) /\ NextChallenge(last_id, r) # {})
            => /\ MinRound(last_id') <= r
               /\ last_id' = "crosswalk" => r >= 5
               /\ last_id' = "shuffle" => r >= 8]_vars
    /\ [](\A r \in FactoryRounds :
            (registry \cap {"traffic_light", "bus", "checkbox"})
               \subseteq IdsOf("None", r))

\* the hard entry has been dispensed from the full registry
C21_Witness == registry = RegistryIds /\ last_id = "shuffle"

\* C22: with no entry eligible for round_num (an empty registry included)
\* next_challenge(round_num) raises: it returns nothing, and the call leaves
\* last_id as it was.
C22_NoEligibleRaises ==
    /\ [](\A r \in FactoryRounds :
            Eligible(r) = {} => NextChallenge(last_id, r) = {})
    /\ [][\A r \in FactoryRounds :
            (Eligible(r) = {} /\ FactNextCall(r))
            => last_id' = last_id /\ challenge' = challenge]_vars

\* only the hard entry registered: dispensed at round 8, and a further call
\* (which raises below round 8) has been made
C22_Witness ==
    /\ registry = {"shuffle"} /\ last_id = "shuffle" /\ calls = 0
    /\ Eligible(1) = {}

\* C23: after reset_history every id eligible for a round can be returned
\* by the next call for that round, the id dispensed before the reset
\* included.
C23_ResetUnconstrains ==
    [][FactReset =>
         /\ last_id' = "None"
         /\ \A r \in FactoryRounds : IdsOf(last_id', r) = Eligible(r)]_vars

\* history cleared after bus was dispensed from the full registry
C23_Witness ==
    /\ registry = RegistryIds /\ last_id = "None" /\ challenge.id = "bus"

\* C24: the ids next_challenge can return are exactly those of the pool,
\* and of the TotalWeight equally likely outcomes of the draw exactly
\* Weight(cid) select the pool entry cid.
C24_WeightedDraw ==
    /\ [](\A r \in FactoryRounds :
            Eligible(r) # {}
            => LET pool == Pool(last_id, r)
                   ids == PoolSeq(pool)
               IN  /\ IdsOf(last_id, r) = pool
                   /\ \A cid \in pool :
                         Cardinality({u \in 0 .. TotalWeight(ids) - 1 :
                                        RandomChoices(ids, u) = cid})
                           = Weight(cid))
    /\ [][\A r \in FactoryRounds :
            (FactNextCall(r) /\ Eligible(r) # {})
            => last_id' \in Pool(last_id, r)]_vars

\* a draw among the four other entries, after shuffle
C24_Witness ==
    /\ registry = RegistryIds /\ last_id = "crosswalk" /\ calls = 0
    /\ TotalWeight(PoolSeq(Pool(last_id, 8))) = 35

InGrid(cell) ==
    /\ 0 <= cell[1] /\ cell[1] < GRID_COLS
    /\ 0 <= cell[2] /\ cell[2] < GRID_ROWS

TileCountOk(c) ==
    /\ Cardinality(c.correct_tiles) >= 2
    /\ Cardinality(c.correct_tiles) <= 5
    /\ \A cell \in c.correct_tiles : InGrid(cell)

\* C26: every instance a traffic-light or bus challenge can be after its
\* constructor or a reset has 2 to 5 correct tiles, all in the 3x3 grid, and
\* nothing selected; a step that builds the challenge or redraws its tiles
\* leaves the selection empty, and the tile count holds in every state.
C26_TileCount ==
    /\ \A cid \in {"traffic_light", "bus"} : \A c \in FreshChallenge(cid) :
          TileCountOk(c) /\ c.selected = {}
    /\ [](challenge.id \in {"traffic_light", "bus"} => TileCountOk(challenge))
    /\ [][(/\ challenge'.id \in {"traffic_light", "bus"}
            /\ \/ challenge.id = "None"
               \/ challenge'.correct_tiles # challenge.correct_tiles)
           => challenge'.selected = {}]_vars

\* a fresh bus challenge with a fifth correct tile in the far corner
C26_Witness ==
    /\ challenge.id = "bus" /\ challenge.selected = {}
    /\ Cardinality(challenge.correct_tiles) = 5
    /\ <<2, 2>> \in challenge.correct_tiles

Adjacent(a, b) == Abs(a[1] - b[1]) + Abs(a[2] - b[2]) = 1

\* C27: in every walk of _generate_path each cell is in the grid, each cell
\* appended after the first is next to the cell the walk stepped from, which
\* is a cell appended before it, the first cell is in column 0 and the last
\* in column GRID_COLS - 1; so the path of every crosswalk challenge has a
\* cell in every column.
C27_PathConnected ==
    /\ \A w \in GeneratePath :
          /\ \A i \in 1 .. Len(w.path) : InGrid(w.path[i])
          /\ Len(w.links) = Len(w.path) - 1
          /\ \A i \in 2 .. Len(w.path) :
                /\ Adjacent(w.path[i], w.links[i - 1])
                /\ \E j \in 1 .. i - 1 : w.path[j] = w.links[i - 1]
          /\ w.path[1][1] = 0
          /\ w.path[Len(w.path)][1] = GRID_COLS - 1
    /\ [](challenge.id = "crosswalk"
         => /\ challenge.correct_tiles \in GeneratedPaths
            /\ \A cell \in challenge.correct_tiles : InGrid(cell)
            /\ \A col \in 0 .. GRID_COLS - 1 :
                  \E cell \in challenge.correct_tiles : cell[1] = col)

\* a crosswalk whose walk went down and up the first column before crossing
C27_Witness ==
    /\ challenge.id = "crosswalk"
    /\ challenge.correct_tiles
         = {<<0, 0>>, <<0, 1>>, <<0, 2>>, <<1, 0>>, <<2, 0>>}

BoxPos(c) == <<c.box_x, c.box_y>>

\* C28: the dodge counter of a checkbox stays within 0 .. MAX_DODGES; a
\* handle_event call moves the box exactly when it adds 1 to the counter, and
\* it moves the box only for a MOUSEMOTION nearer than FLEE_RADIUS to the box
\* centre while the counter is below MAX_DODGES; with the counter at
\* MAX_DODGES only a reset moves the box, and a left click on the box
\* checks it.
C28_DodgeBound ==
    /\ [](challenge.id = "checkbox"
          => challenge.dodges >= 0 /\ challenge.dodges <= MAX_DODGES)
    /\ [][challenge.id = "checkbox" =>
            /\ \A e \in ChallengeEvents : ChEventCall(e) =>
                 /\ challenge'.dodges \in {challenge.dodges, challenge.dodges + 1}
                 /\ BoxPos(challenge') # BoxPos(challenge)
                      <=> challenge'.dodges = challenge.dodges + 1
                 /\ BoxPos(challenge') # BoxPos(challenge)
                      => /\ e.type = "MOUSEMOTION"
                         /\ CursorNear(challenge, e.pos)
                         /\ challenge.dodges < MAX_DODGES
                 /\ (/\ e.type = "MOUSEBUTTONDOWN" /\ e.button = 1
                     /\ CollidePoint(BoxRect(challenge), e.pos))
                      => challenge'.checked
            /\ (challenge.dodges >= MAX_DODGES
                /\ BoxPos(challenge') # BoxPos(challenge))
                 => challenge'.dodges = 0 /\ ~challenge'.checked]_vars

\* a checkbox that dodged MAX_DODGES times and was then clicked
C28_Witness ==
    /\ challenge.id = "checkbox"
    /\ challenge.dodges = MAX_DODGES
    /\ challenge.checked

\* the box lies below the header and the timer bar, above the bottom panel,
\* and between the left and right edges of the screen
InPlayArea(c) ==
    /\ 0 <= c.box_x /\ c.box_x + BOX_SIZE <= SCREEN_W
    /\ HEADER_H + TIMER_BAR_H <= c.box_y
    /\ c.box_y + BOX_SIZE <= SCREEN_H - BOTTOM_PANEL_H

\* a step in which the checkbox dodged
Fled ==
    /\ challenge.id = "checkbox" /\ challenge'.id = "checkbox"
    /\ challenge'.dodges = challenge.dodges + 1

\* C29 as stated: every dodge moves the box by at least 2 * BOX_SIZE on the
\* x axis and on the y axis, and leaves it in the play area.
C29_FleeBothAxes ==
    [][Fled => /\ Abs(challenge'.box_x - challenge.box_x) >= 2 * BOX_SIZE
               /\ Abs(challenge'.box_y - challenge.box_y) >= 2 * BOX_SIZE
               /\ InPlayArea(challenge')]_vars

\* C29 as the code has it: every dodge moves the box by at least 2 * BOX_SIZE
\* on the x axis or on the y axis, and leaves it in the play area.
C29_FleeOneAxis ==
    [][Fled => /\ \/ Abs(challenge'.box_x - challenge.box_x) >= 2 * BOX_SIZE
                  \/ Abs(challenge'.box_y - challenge.box_y) >= 2 * BOX_SIZE
               /\ InPlayArea(challenge')]_vars

\* a box that has dodged once, into the far corner of the play area
C29_Witness ==
    /\ challenge.id = "checkbox"
    /\ challenge.dodges = 1
    /\ BoxPos(challenge) = <<UsableRight, UsableBot>>

DropLast(s) == IF Len(s) = 0 THEN <<>> ELSE SubSeq(s, 1, Len(s) - 1)

\* C30: the typed buffer of a shuffle challenge holds letters only and is
\* never longer than the word; backspace removes the last character and does
\* nothing to an empty buffer; a key that is not a letter, and a letter typed
\* at full length, change nothing; is_solved holds exactly when the buffer
\* has the word's length and equals it without regard to case.
C30_TypedBuffer ==
    /\ [](challenge.id = "shuffle"
          => /\ Len(challenge.typed) <= Len(challenge.word)
             /\ \A i \in 1 .. Len(challenge.typed) : IsAlpha(challenge.typed[i])
             /\ IsSolved(challenge)
                  <=> /\ Len(challenge.typed) = Len(challenge.word)
                      /\ \A i \in 1 .. Len(challenge.word) :
                            Upper(challenge.typed[i]) = Upper(challenge.word[i]))
    /\ [][challenge.id = "shuffle" =>
            \A e \in ChallengeKeys : ChEventCall(e) =>
              /\ e.key = "K_BACKSPACE"
                   => challenge'.typed = DropLast(challenge.typed)
              /\ (/\ e.key # "K_BACKSPACE"
                  /\ \/ ~IsAlpha(e.unicode)
                     \/ Len(challenge.typed) = Len(challenge.word))
                   => challenge'.typed = challenge.typed]_vars

\* C31: the alpha of flash_state lies in [0, 1] (here: its numerator in
\* 0 .. FLASH_DURATION) whatever register_pass, register_fail and update_flash
\* calls were made, and update_flash with a negative dt leaves the flash
\* timer and colour as they are.
C31_FlashAlpha ==
    /\ [](/\ FlashState(session)[2] >= 0
          /\ FlashState(session)[2] <= FLASH_DURATION)
    /\ [][\A dt \in FlashDtValues : (dt < 0 /\ FlUpdateCall(dt))
            => /\ session'.flash_timer = session.flash_timer
               /\ session'.flash_color = session.flash_color]_vars

SessIs(s, round_num, score, streak, strikes) ==
    /\ s.round_num = round_num /\ s.score = score
    /\ s.streak = streak /\ s.strikes = strikes

\* a step in which _submit ran on a challenge that is solved (TRUE) or not
Verified(solved) ==
    /\ state = "PLAYING" /\ state' = "FLASH"
    /\ ~IsExpired(timer')
    /\ IsSolved(challenge) = solved

\* a step in which update found the timer expired
TimedOut == state = "PLAYING" /\ state' = "FLASH" /\ IsExpired(timer')

\* the session values of the end-to-end scenario, step by step
ScenarioValues ==
    /\ (state = "MENU" /\ state' = "PLAYING") => SessIs(session', 1, 0, 0, 0)
    /\ (SessIs(session, 1, 0, 0, 0) /\ Verified(TRUE))
         => SessIs(session', 2, 100, 1, 0)
    /\ (SessIs(session, 2, 100, 1, 0) /\ Verified(FALSE))
         => SessIs(session', 2, 100, 0, 1)
    /\ (SessIs(session, 2, 100, 0, 1) /\ TimedOut)
         => SessIs(session', 2, 100, 0, 2)
    /\ (SessIs(session, 2, 100, 0, 2) /\ Verified(TRUE))
         => SessIs(session', 3, 200, 1, 2)
    /\ (SessIs(session, 5, 700, 3, 2) /\ Verified(TRUE))
         => SessIs(session', 6, 1100, 4, 2)

\* C32: the end-to-end scenario gives the stated session values at each of
\* its steps, and the pass that completes round 5 leaves security_level 2
\* with level_up set.
C32_EndToEnd ==
    [][/\ ScenarioValues
       /\ (SessIs(session, 5, 700, 3, 2) /\ Verified(TRUE))
            => /\ {"security_level", "level_up"} \subseteq DOMAIN session'
               /\ session'.security_level = 2
               /\ session'.level_up = TRUE]_vars

\* the time limit of a round, in ms
LimitOf(round_num) ==
    Max(TIMER_MIN_S, TIMER_START_S - (round_num - 1) * TIMER_DECAY)

\* C33: in PLAYING the timer is running, has not expired, and its limit is
\* the one of the session's current round; an update that leaves FLASH for
\* PLAYING starts the timer from 0, with the same limit as before after a
\* fail and with the limit of the incremented round after a pass.
C33_PlayingTimer ==
    /\ [](state = "PLAYING"
          => /\ timer.running
             /\ ~IsExpired(timer)
             /\ timer.limit = LimitOf(session.round_num))
    /\ [][(state = "FLASH" /\ state' = "PLAYING")
          => /\ timer'.elapsed = 0
             /\ session.flash_color = "fail" => timer'.limit = timer.limit
             /\ session.flash_color = "pass"
                  => /\ session.round_num > 1
                     /\ timer.limit = LimitOf(session.round_num - 1)
                     /\ timer'.limit = LimitOf(session.round_num)]_vars

\* round 2 played again after a fail, some of its 11.6 s gone
C33_Witness ==
    /\ state = "PLAYING"
    /\ session.round_num = 2 /\ session.strikes = 1
    /\ timer.limit = 11600 /\ timer.elapsed = 4000 /\ timer.running

\* a step in which _load_next_challenge ran
Loaded == state' = "PLAYING" /\ state # "PLAYING"

\* C34: a load leaves no cached button rectangle and no hover, and a click
\* is taken as verify only once the PLAYING screen has been rendered and
\* has cached the verify button's rectangle.
C34_LoadClearsButton ==
    /\ [][Loaded => btn_rect' = NoneRect /\ ~hover']_vars
    /\ [][\A e \in Events :
            (state = "PLAYING" /\ HandleEvent(e) /\ state' = "FLASH")
            => btn_rect = VerifyButtonRect]_vars

\* C35: from the step after the game started to the step before the return
\* to MENU, no step lowers score or round_num; round_num grows by 1 in a
\* step that registers a pass and stays in every other step, a wrong verify
\* and a timeout included; score grows in a pass only.
C35_Monotone ==
    [][(state # "MENU" /\ state' # "MENU")
       => /\ session'.score >= session.score
          /\ session'.round_num >= session.round_num
          /\ Verified(TRUE) => session'.round_num = session.round_num + 1
          /\ (Verified(FALSE) \/ TimedOut)
               => /\ session'.round_num = session.round_num
                  /\ session'.score = session.score
                  /\ session'.strikes = session.strikes + 1
          /\ ~Verified(TRUE)
               => /\ session'.round_num = session.round_num
                  /\ session'.score = session.score]_vars

\* a game lost after two passes
C35_Witness ==
    /\ state = "GAMEOVER"
    /\ session.round_num = 3 /\ session.score = 3 * BASE_SCORE
    /\ session.strikes = MAX_STRIKES

\* the point p lies on the tile t: tiles are 96 px wide and high, 104 px
\* apart, the first at (28, 168)
InTile(p, t) ==
    /\ 28 + 104 * t[1] <= p[1] /\ p[1] < 28 + 104 * t[1] + 96
    /\ 168 + 104 * t[2] <= p[2] /\ p[2] < 168 + 104 * t[2] + 96

\* the grid's selection after left clicks at the points ps, in order
RECURSIVE ClickAll(_, _)
ClickAll(selected, ps) ==
    IF ps = <<>> THEN selected
    ELSE ClickAll(GridHandleClick(selected, Head(ps)), Tail(ps))

\* the tiles hit an odd number of times by clicks at the points ps
OddHits(ps) ==
    {t \in AllPositions :
        Cardinality({i \in 1 .. Len(ps) : InTile(ps[i], t)}) % 2 = 1}

ClickPoints == {e.pos : e \in ChallengeClicks}

\* C36: after any sequence of left clicks on a fresh grid the selection is
\* the set of tiles hit an odd number of times; in every state a grid
\* challenge reaches, handle_event with a left click flips the tile under it
\* and nothing else, and with a click on no tile or of another button
\* changes nothing; is_solved holds exactly when every tile is selected if
\* and only if it is correct.
C36_OddClicks ==
    /\ \A n \in 0 .. MaxClicks : \A ps \in [1 .. n -> ClickPoints] :
          ClickAll({}, ps) = OddHits(ps)
    /\ [](challenge.id \in GridIds
          => (IsSolved(challenge)
              <=> \A t \in AllPositions :
                    t \in challenge.selected <=> t \in challenge.correct_tiles))
    /\ [](challenge.id \in GridIds =>
            \A e \in ChallengeClicks :
              \A c \in ChallengeHandleEventFrom(challenge, e, PositionSamples) :
                LET hit == IF e.button = 1
                           THEN {t \in AllPositions : InTile(e.pos, t)}
                           ELSE {}
                IN  /\ Cardinality(hit) <= 1
                    /\ c.selected
                         = (challenge.selected \ hit) \cup (hit \ challenge.selected)
                    /\ c.correct_tiles = challenge.correct_tiles)

\* a traffic-light challenge with exactly its two correct tiles selected
C36_Witness ==
    /\ challenge.id = "traffic_light"
    /\ challenge.correct_tiles = {<<0, 0>>, <<1, 1>>}
    /\ challenge.selected = {<<0, 0>>, <<1, 1>>}
    /\ IsSolved(challenge)

\* the number of results (passes and fails) a step adds to the session
Results == (session'.round_num - session.round_num)
             + (session'.strikes - session.strikes)

\* C37: inside a game a result is registered in exactly the steps that take
\* PLAYING to FLASH, one result per such step, and never both a pass and a
\* fail; PLAYING is left only for FLASH, and a challenge is loaded only from
\* MENU or FLASH, so each loaded challenge gets exactly one result before the
\* next load or GAMEOVER; one update call adds at most one strike and no
\* pass, also with a dt of 1000 s.
C37_OneResult ==
    /\ [][(state # "MENU" /\ state' # "MENU")
          => /\ Results \in {0, 1}
             /\ session'.round_num >= session.round_num
             /\ session'.strikes >= session.strikes
             /\ Results = 1 <=> (state = "PLAYING" /\ state' = "FLASH")]_vars
    /\ [][/\ state = "PLAYING" => state' \in {"PLAYING", "FLASH"}
          /\ state = "FLASH" => state' \in {"FLASH", "PLAYING", "GAMEOVER"}
          /\ state = "PLAYING" => challenge'.id = challenge.id
          /\ Loaded => state \in {"MENU", "FLASH"}]_vars
    /\ [][\A p \in UpdatePoints :
            (state \in {"PLAYING", "FLASH"} /\ Update(1000000, p))
            => /\ session'.strikes - session.strikes \in {0, 1}
               /\ session'.round_num = session.round_num]_vars

\* the timer ran out in round 1: one strike, and the flash under way
C37_Witness ==
    /\ state = "FLASH"
    /\ IsExpired(timer)
    /\ session.strikes = 1 /\ session.round_num = 1
    /\ session.flash_timer < FLASH_DURATION

\* C38: with the shipped registry, wherever the game can load a challenge
\* (start_game from MENU, update at the end of a flash with strikes left)
\* next_challenge has a challenge to return; and every load at the end of a
\* flash, after a pass or after a fail at the same round, returns an
\* identifier other than that of the challenge just played.
C38_LoadsDiffer ==
    /\ [](registry = RegistryIds)
    /\ [](state = "MENU" => NextChallenge("None", 1) # {})
    /\ [](state = "FLASH" /\ ~IsGameOver(session)
          => NextChallenge(last_id, session.round_num) # {})
    /\ [](state \in {"PLAYING", "FLASH"}
          => challenge.id \in registry /\ last_id = challenge.id)
    /\ [][(Loaded /\ state = "FLASH")
          => /\ challenge'.id # challenge.id
             /\ challenge'.id \in Eligible(session'.round_num)]_vars

\* round 1 loaded a third time, after two fails
C38_Witness ==
    /\ state = "PLAYING"
    /\ session.round_num = 1 /\ session.strikes = 2
    /\ challenge.id = "checkbox"

\* C39: under frames with dt > 0 every PLAYING round reaches FLASH and every
\* FLASH reaches PLAYING or GAMEOVER; a round is never in PLAYING with the
\* accumulated dt at its limit.
C39_RoundsEnd ==
    /\ (state = "PLAYING") ~> (state = "FLASH")
    /\ (state = "FLASH") ~> (state \in {"PLAYING", "GAMEOVER"})
    /\ [](state = "PLAYING" => timer.elapsed < timer.limit)

\* a game lost on three timeouts, no challenge ever touched
C39_Witness ==
    /\ state = "GAMEOVER"
    /\ session.score = 0 /\ session.strikes = MAX_STRIKES
    /\ IsExpired(timer)
    /\ challenge.selected = {} /\ ~challenge.checked

\* the challenge c holds no player progress
NoProgress(c) ==
    /\ c.selected = {} /\ c.typed = <<>>
    /\ ~c.checked /\ c.dodges = 0

\* C40: every fresh instance of every variant holds no player progress and
\* is not solved; so does the active challenge right after every load of the
\* game; and a round that ends with the challenge still without progress,
\* by a verify click or by the timer, registers a fail.
C40_FreshUnsolved ==
    /\ \A cid \in RegistryIds : \A c \in FreshChallenge(cid) :
          NoProgress(c) /\ ~IsSolved(c)
    /\ [][Loaded => /\ challenge'.id \in RegistryIds
                    /\ NoProgress(challenge')
                    /\ ~IsSolved(challenge')]_vars
    /\ [][(state = "PLAYING" /\ state' = "FLASH" /\ NoProgress(challenge))
          => FailOf(session, session')]_vars

\* verify clicked on a checkbox challenge nobody touched, the timer still at 0
C40_Witness ==
    /\ state = "FLASH"
    /\ challenge.id = "checkbox" /\ NoProgress(challenge)
    /\ timer.elapsed = 0
    /\ session.strikes = 1 /\ session.flash_color = "fail"

====
